---- MODULE Spec2Model ----
(***************************************************************************)
(* TorchExecutor (engines/torch_executor.py): the training / validation /  *)
(* checkpointing control loop of a scene-text recognition model.           *)
(*                                                                         *)
(* Abstractions.  Model parameters are a version [base, steps]: base says  *)
(* where the parameters came from, steps counts the optimizer steps        *)
(* applied since.  Strings that the code builds (paths, file names) are    *)
(* tuples of their parts, the empty string being <<>>.  A float that is a  *)
(* quotient is the exact rational <<numerator, denominator>>.  An optional *)
(* argument is <<>> for None and <<n>> for the integer n.                  *)
(***************************************************************************)
EXTENDS Integers, Sequences, FiniteSets, TLC

\* ---------------------------------------------------------------- bounds
MaxTrainSteps == 3      \* max_train_steps in 0..MaxTrainSteps, num_max_steps one more
MaxInterval == 2        \* validation_interval_steps in 1..MaxInterval
MaxEpoch == 1           \* num_epoch in 0..MaxEpoch
MaxBatches == 2         \* batches of the validation set
MaxBatchSize == 2       \* samples per validation batch
MaxED == 1              \* per-batch normalized edit distance sum, in whole units

\* ------------------------------------------------------- program constants
\* `(i + 1) % 1e+5`: the snapshot interval, reduced from 100000.
SnapshotInterval == 2
\* `best_norm_ed = 1e+6`
BestNormEdInit == 1000000

VARIABLES
    self,               \* the executor's fields set by __init__
    fs,                 \* files: path -> content
    dirs,               \* existing directories
    pc,                 \* position of the call in progress
    call,               \* the public method called and its arguments
    ret,                \* what a returned load_model / validation call returned
    error,              \* the exception that ended the call, <<>> when none
    model,              \* the DataParallel model of train
    current_step, i, total_num_steps,
    loss_avg, best_accuracy, best_norm_ed,
    current_accuracy, current_norm_ed,
    log,                \* lines of store/<experiment>/log_train.txt
    stored,             \* file names store_model was called with by the last step
    reads               \* paths torch.load has read

vars == <<self, fs, dirs, pc, call, ret, error, model, current_step, i,
          total_num_steps, loss_avg, best_accuracy, best_norm_ed,
          current_accuracy, current_norm_ed, log, stored, reads>>

\* ------------------------------------------------------------ Python values
None == <<>>
Some(n) == <<n>>
IsNotNone(x) == x # None
\* `if x:` for x an int or None
Truthy(x) == x # None /\ x[1] # 0
Optional(S) == {None} \cup {Some(n) : n \in S}

\* Exact rationals <<p, q>>, q > 0.
RatLess(a, b) == a[1] * b[2] < b[1] * a[2]

\* ------------------------------------------------------------- Averager
\* dataset.scene_text_recognition.utils.Averager: running sum and count.
Averager == [sum |-> 0, n_count |-> 0]
AveragerAdd(a, v) == [sum |-> a.sum + v, n_count |-> a.n_count + 1]
AveragerReset(a) == [sum |-> 0, n_count |-> 0]
AveragerVal(a) == <<a.sum, a.n_count>>

\* ---------------------------------------------------------- file system
EmptyPath == <<>>
PretrainedPath == <<"pretrained.pth">>
ExperimentName == "exp"
StoreDir == <<"store">>
ExperimentDir == <<"store", ExperimentName>>
\* `model.__class__.__name__`
ClassName(m) == IF m.wrapped THEN "DataParallel" ELSE "Model"
ModelDir(m) == <<"store", ExperimentName, ClassName(m)>>
BestAccuracyFile == <<"best_accuracy.pth">>
BestNormEdFile == <<"best_norm_ed.pth">>
\* f"iter_{i + 1}.pth"
IterFile(n) == <<"iter_", n, ".pth">>

\* os.path.exists
Exists(path, files, directories) == path \in DOMAIN files \/ path \in directories
\* os.makedirs: the directory and its missing parents
MakeDirs(d, directories) == directories \cup {SubSeq(d, 1, k) : k \in 1..Len(d)}

FreshParams == [base |-> "init", steps |-> 0]
PretrainedParams == [base |-> "pretrained", steps |-> 0]
\* torch.nn.DataParallel(self._model).to(device)
DataParallel(params) == [params |-> params, wrapped |-> TRUE, mode |-> "train"]

\* os.makedirs(d) raises FileExistsError when d exists
MakeDirsError(d, files, directories) ==
    IF Exists(d, files, directories) THEN <<"FileExistsError">> ELSE <<>>

\* mutant of store_model: os.makedirs without the os.path.exists test
store_model_Unguarded(m, file_name, files, directories) ==
    LET d == ModelDir(m)
        path == d \o file_name
    IN IF MakeDirsError(d, files, directories) # <<>>
       THEN [fs |-> files, dirs |-> directories,
             error |-> MakeDirsError(d, files, directories)]
       ELSE [fs |-> (path :> [kind |-> "object", params |-> m.params]) @@ files,
             dirs |-> MakeDirs(d, directories), error |-> <<>>]

\* store_model: create the directory if absent, then torch.save the whole
\* model object.
store_model(m, file_name, files, directories) ==
    LET d == ModelDir(m)
        absent == ~Exists(d, files, directories)
        path == d \o file_name
    IN IF absent /\ MakeDirsError(d, files, directories) # <<>>
       THEN [fs |-> files, dirs |-> directories,
             error |-> MakeDirsError(d, files, directories)]
       ELSE [fs |-> (path :> [kind |-> "object", params |-> m.params]) @@ files,
             dirs |-> IF absent THEN MakeDirs(d, directories) ELSE directories,
             error |-> <<>>]

\* mutant of load_model: torch.load without the os.path.exists test
load_model_Unguarded(path, stored_path, base, files, directories) ==
    LET wrapped == DataParallel(base) IN
    IF stored_path \notin DOMAIN files
    THEN [error |-> <<"FileNotFoundError">>, model |-> wrapped, reads |-> <<>>]
    ELSE IF files[stored_path].kind = "state_dict"
         THEN [error |-> <<>>,
               model |-> [wrapped EXCEPT !.params = files[stored_path].params],
               reads |-> <<stored_path>>]
         ELSE [error |-> <<"TypeError">>, model |-> wrapped,
               reads |-> <<stored_path>>]

\* load_model: wrap the base model; when `path` exists, torch.load the
\* configured stored model and load_state_dict it.
load_model(path, stored_path, base, files, directories) ==
    LET wrapped == DataParallel(base) IN
    IF Exists(path, files, directories)
    THEN IF stored_path \notin DOMAIN files
         THEN [error |-> <<"FileNotFoundError">>, model |-> wrapped, reads |-> <<>>]
         ELSE IF files[stored_path].kind = "state_dict"
              THEN [error |-> <<>>,
                    model |-> [wrapped EXCEPT !.params = files[stored_path].params],
                    reads |-> <<stored_path>>]
              ELSE [error |-> <<"TypeError">>, model |-> wrapped,
                    reads |-> <<stored_path>>]
    ELSE [error |-> <<>>, model |-> wrapped, reads |-> <<>>]

\* ------------------------------------------------------------ validation
\* One batch as the collaborators answer for it: its size, get_predictions'
\* cost and decoded predictions (those of batch k are named k),
\* get_accuracy's exact-match count and normalized edit distance sum.
BatchAnswers(k, size) ==
    [batch_size : {size}, n_correct_ : 0..size, norm_ED_ : 0..MaxED,
     cost : {1}, preds_str : {k}]

\* The answers possible for the first k batches of a validation set with the
\* given batch sizes.
RECURSIVE AnswersUpTo(_, _)
AnswersUpTo(sizes, k) ==
    IF k = 0 THEN {<<>>}
    ELSE {Append(p, a) : p \in AnswersUpTo(sizes, k - 1),
                         a \in BatchAnswers(k, sizes[k])}

BatchOutcomes(sizes) == AnswersUpTo(sizes, Len(sizes))

ValidationInit ==
    [n_correct |-> 0, norm_ED |-> 0, length_of_data |-> 0, infer_time |-> 0,
     valid_loss_avg |-> Averager, preds_str |-> 0]

\* mutant of ValidationBody: length_of_data assigned instead of accumulated
ValidationBody_LastSize(acc, batch) ==
    [n_correct |-> acc.n_correct + batch.n_correct_,
     norm_ED |-> acc.norm_ED + batch.norm_ED_,
     length_of_data |-> batch.batch_size,
     infer_time |-> acc.infer_time + 1,
     valid_loss_avg |-> AveragerAdd(acc.valid_loss_avg, batch.cost),
     preds_str |-> batch.preds_str]

\* the body of `for i, (image_tensors, labels) in enumerate(evaluation_loader)`
ValidationBody(acc, batch) ==
    [n_correct |-> acc.n_correct + batch.n_correct_,
     norm_ED |-> acc.norm_ED + batch.norm_ED_,
     length_of_data |-> acc.length_of_data + batch.batch_size,
     infer_time |-> acc.infer_time + 1,
     valid_loss_avg |-> AveragerAdd(acc.valid_loss_avg, batch.cost),
     preds_str |-> batch.preds_str]

RECURSIVE ValidationLoop(_, _)
ValidationLoop(acc, batches) ==
    IF batches = <<>> THEN acc
    ELSE ValidationLoop(ValidationBody(acc, Head(batches)), Tail(batches))

\* `n_correct / float(length_of_data) * 100`
Accuracy(n_correct, length_of_data) == <<n_correct * 100, length_of_data>>

validation(batches) ==
    LET a == ValidationLoop(ValidationInit, batches) IN
    IF a.length_of_data = 0
    THEN [error |-> <<"ZeroDivisionError">>]
    ELSE [error |-> <<>>,
          valid_loss |-> AveragerVal(a.valid_loss_avg),
          accuracy |-> Accuracy(a.n_correct, a.length_of_data),
          norm_ED |-> a.norm_ED,
          preds_str |-> a.preds_str,
          infer_time |-> a.infer_time,
          length_of_data |-> a.length_of_data]

\* ----------------------------------------------------------------- train
\* `assert (num_max_steps is not None and num_epoch is not None, "...")`:
\* the asserted expression is the two-element tuple.
AssertArgument(num_max_steps, num_epoch) ==
    <<IsNotNone(num_max_steps) /\ IsNotNone(num_epoch),
      "Use steps or epoch at a time">>
\* mutant of AssertPasses: the condition itself is asserted
AssertPasses_Condition(num_max_steps, num_epoch) ==
    AssertArgument(num_max_steps, num_epoch)[1]

\* a tuple is true when it is not empty
AssertPasses(num_max_steps, num_epoch) ==
    Len(AssertArgument(num_max_steps, num_epoch)) > 0

\* total_num_steps as lines 122-132 compute it
TotalNumSteps(num_max_steps, num_epoch, num_samples, batch_size) ==
    LET num_steps_per_epoch == num_samples \div batch_size
        by_epoch == IF Truthy(num_epoch)
                    THEN num_steps_per_epoch * num_epoch[1] ELSE -1
    IN IF Truthy(num_max_steps) THEN num_max_steps[1] ELSE by_epoch

\* ------------------------------------------------------------------ Init
\* Validation sets as their batch sizes.
ValidationSets ==
    UNION {[1..n -> 1..MaxBatchSize] : n \in 0..MaxBatches}

\* The training loop reads a validation set only through validation's
\* result: it runs on an empty set and on a set of one one-sample batch.
TrainValidationSets == {<<>>, <<1>>}

Dataset(validation_set) ==
    [num_samples |-> 3, batch_size |-> 2, validation_set |-> validation_set]

InitLocals ==
    /\ pc = "idle"
    /\ call = [op |-> "none"]
    /\ ret = <<>>
    /\ error = <<>>
    /\ model = DataParallel(FreshParams)
    /\ current_step = 0
    /\ i = 0
    /\ total_num_steps = -1
    /\ loss_avg = Averager
    /\ best_accuracy = <<-1, 1>>
    /\ best_norm_ed = BestNormEdInit
    /\ current_accuracy = <<0, 1>>
    /\ current_norm_ed = 0
    /\ log = <<>>
    /\ stored = <<>>
    /\ reads = <<>>

\* After __init__: the configuration, and a file system that holds no
\* checkpoint or, at the configured path, a pretrained parameter state.
Init ==
    /\ self \in [max_train_steps : 0..MaxTrainSteps,
                 validation_interval_steps : 1..MaxInterval,
                 stored_model : {EmptyPath, PretrainedPath},
                 dataset : {Dataset(v) : v \in TrainValidationSets}]
    /\ fs \in {<<>>, PretrainedPath :> [kind |-> "state_dict", params |-> PretrainedParams]}
    /\ PretrainedPath \in DOMAIN fs => self.stored_model = PretrainedPath
    /\ dirs = {}
    /\ InitLocals

\* lines 112-141
Train(num_max_steps, num_epoch) ==
    /\ pc = "idle"
    /\ call' = [op |-> "train", num_max_steps |-> num_max_steps, num_epoch |-> num_epoch]
    /\ IF ~AssertPasses(num_max_steps, num_epoch)
       THEN /\ pc' = "raised"
            /\ error' = <<"AssertionError">>
            /\ UNCHANGED <<model, reads, total_num_steps>>
       ELSE LET l == load_model(self.stored_model, self.stored_model, FreshParams, fs, dirs) IN
            /\ reads' = reads \o l.reads
            /\ error' = l.error
            /\ IF l.error # <<>>
               THEN /\ pc' = "raised"
                    /\ UNCHANGED <<model, total_num_steps>>
               ELSE /\ pc' = "while"
                    /\ model' = [l.model EXCEPT !.mode = "train"]
                    /\ total_num_steps' =
                          TotalNumSteps(num_max_steps, num_epoch,
                                        self.dataset.num_samples, self.dataset.batch_size)
    /\ current_step' = 0
    /\ i' = 0
    /\ loss_avg' = Averager
    /\ best_accuracy' = <<-1, 1>>
    /\ best_norm_ed' = BestNormEdInit
    /\ stored' = <<>>
    /\ UNCHANGED <<self, fs, dirs, ret, current_accuracy, current_norm_ed, log>>

\* mutant of WhileCondition: `<=`, one iteration more
WhileCondition_Inclusive(step, total) == step <= total

\* `while (current_step < total_num_steps)`
WhileCondition(step, total) == step < total

\* line 143 false: the loop ends and train returns
WhileExit ==
    /\ pc = "while"
    /\ ~WhileCondition(current_step, total_num_steps)
    /\ pc' = "returned"
    /\ stored' = <<>>
    /\ UNCHANGED <<self, fs, dirs, call, ret, error, model, current_step, i,
                   total_num_steps, loss_avg, best_accuracy, best_norm_ed,
                   current_accuracy, current_norm_ed, log, reads>>

\* optimizer.step(): the parameters move on by one step
OptimizerStep(m) == [m EXCEPT !.params.steps = @ + 1]

\* lines 143-158, the train part: a batch, its cost, one optimizer step,
\* the cost folded into loss_avg
TrainPart(cost) ==
    /\ pc = "while"
    /\ WhileCondition(current_step, total_num_steps)
    /\ model' = OptimizerStep(model)
    /\ loss_avg' = AveragerAdd(loss_avg, cost)
    /\ pc' = "validation_part"
    /\ stored' = <<>>
    /\ UNCHANGED <<self, fs, dirs, call, ret, error, current_step, i,
                   total_num_steps, best_accuracy, best_norm_ed,
                   current_accuracy, current_norm_ed, log, reads>>

\* mutant of ValidationDue: the test on the steps completed, i + 1
ValidationDue_Completed(step, interval) == (step + 1) % interval = 0

\* `i % self._validation_interval_steps == 0`
ValidationDue(step, interval) == step % interval = 0

\* a line of the log: the iteration it was formatted in and the values it shows
LogLine(kind, step, values) == [kind |-> kind, i |-> step, values |-> values]

\* mutant of LossLog: the loss line is written and loss_avg is not reset
LossLog_NoReset ==
    /\ pc = "validation_part"
    /\ ValidationDue(i, self.validation_interval_steps)
    /\ dirs' = IF ~Exists(ExperimentDir, fs, dirs)
               THEN MakeDirs(ExperimentDir, dirs) ELSE dirs
    /\ log' = Append(log, LogLine("loss", i, <<AveragerVal(loss_avg)>>))
    /\ pc' = "eval"
    /\ stored' = <<>>
    /\ UNCHANGED <<self, fs, call, ret, error, model, current_step, i,
                   total_num_steps, loss_avg, best_accuracy, best_norm_ed,
                   current_accuracy, current_norm_ed, reads>>

\* mutant of LossLog: the log file is opened without making its directory
LossLog_NoMakeDirs ==
    /\ pc = "validation_part"
    /\ ValidationDue(i, self.validation_interval_steps)
    /\ log' = Append(log, LogLine("loss", i, <<AveragerVal(loss_avg)>>))
    /\ loss_avg' = AveragerReset(loss_avg)
    /\ pc' = "eval"
    /\ stored' = <<>>
    /\ UNCHANGED <<self, fs, dirs, call, ret, error, model, current_step, i,
                   total_num_steps, best_accuracy, best_norm_ed,
                   current_accuracy, current_norm_ed, reads>>

\* lines 161-171: the log directory, the loss line, loss_avg.reset()
LossLog ==
    /\ pc = "validation_part"
    /\ ValidationDue(i, self.validation_interval_steps)
    /\ dirs' = IF ~Exists(ExperimentDir, fs, dirs)
               THEN MakeDirs(ExperimentDir, dirs) ELSE dirs
    /\ log' = Append(log, LogLine("loss", i, <<AveragerVal(loss_avg)>>))
    /\ loss_avg' = AveragerReset(loss_avg)
    /\ pc' = "eval"
    /\ stored' = <<>>
    /\ UNCHANGED <<self, fs, call, ret, error, model, current_step, i,
                   total_num_steps, best_accuracy, best_norm_ed,
                   current_accuracy, current_norm_ed, reads>>

\* line 161 false
NoValidation ==
    /\ pc = "validation_part"
    /\ ~ValidationDue(i, self.validation_interval_steps)
    /\ pc' = "save_iter"
    /\ stored' = <<>>
    /\ UNCHANGED <<self, fs, dirs, call, ret, error, model, current_step, i,
                   total_num_steps, loss_avg, best_accuracy, best_norm_ed,
                   current_accuracy, current_norm_ed, log, reads>>

\* line 173: model.eval()
EvalMode ==
    /\ pc = "eval"
    /\ model' = [model EXCEPT !.mode = "eval"]
    /\ pc' = "validation"
    /\ stored' = <<>>
    /\ UNCHANGED <<self, fs, dirs, call, ret, error, current_step, i,
                   total_num_steps, loss_avg, best_accuracy, best_norm_ed,
                   current_accuracy, current_norm_ed, log, reads>>

\* lines 174-176: self.validation(model=model) over the validation set, the
\* collaborators answering `batches`; its exception ends train
RunValidation(batches) ==
    /\ pc = "validation"
    /\ LET v == validation(batches) IN
       IF v.error # <<>>
       THEN /\ pc' = "raised"
            /\ error' = v.error
            /\ UNCHANGED <<current_accuracy, current_norm_ed>>
       ELSE /\ pc' = "train_mode"
            /\ current_accuracy' = v.accuracy
            /\ current_norm_ed' = v.norm_ED
            /\ UNCHANGED error
    /\ stored' = <<>>
    /\ UNCHANGED <<self, fs, dirs, call, ret, model, current_step, i,
                   total_num_steps, loss_avg, best_accuracy, best_norm_ed,
                   log, reads>>

\* mutant of TrainMode: validation returns and the mode is left as it is
TrainMode_Skip ==
    /\ pc = "train_mode"
    /\ pc' = "valid_log"
    /\ stored' = <<>>
    /\ UNCHANGED <<self, fs, dirs, call, ret, error, model, current_step, i,
                   total_num_steps, loss_avg, best_accuracy, best_norm_ed,
                   current_accuracy, current_norm_ed, log, reads>>

\* line 177: model.train()
TrainMode ==
    /\ pc = "train_mode"
    /\ model' = [model EXCEPT !.mode = "train"]
    /\ pc' = "valid_log"
    /\ stored' = <<>>
    /\ UNCHANGED <<self, fs, dirs, call, ret, error, current_step, i,
                   total_num_steps, loss_avg, best_accuracy, best_norm_ed,
                   current_accuracy, current_norm_ed, log, reads>>

\* lines 186-189: the validation metrics line
ValidLog ==
    /\ pc = "valid_log"
    /\ log' = Append(log, LogLine("valid", i, <<current_accuracy, current_norm_ed>>))
    /\ pc' = "keep_best"
    /\ stored' = <<>>
    /\ UNCHANGED <<self, fs, dirs, call, ret, error, model, current_step, i,
                   total_num_steps, loss_avg, best_accuracy, best_norm_ed,
                   current_accuracy, current_norm_ed, reads>>

\* mutant of AccuracyImproved: `>=`, a tie counts as an improvement
AccuracyImproved_OnTie(current, best) == ~RatLess(current, best)

\* `current_accuracy > best_accuracy`
AccuracyImproved(current, best) == RatLess(best, current)

\* mutant of NormEdImproved: a tie counts as an improvement
NormEdImproved_OnTie(current, best) == current <= best

\* `current_norm_ed < best_norm_ed`
NormEdImproved(current, best) == current < best

\* lines 191-197: keep the best accuracy model and the best norm_ED model
KeepBest ==
    /\ pc = "keep_best"
    /\ LET acc == AccuracyImproved(current_accuracy, best_accuracy)
           ned == NormEdImproved(current_norm_ed, best_norm_ed)
           s1 == IF acc THEN store_model(model, BestAccuracyFile, fs, dirs)
                 ELSE [fs |-> fs, dirs |-> dirs]
           s2 == IF ned THEN store_model(model, BestNormEdFile, s1.fs, s1.dirs)
                 ELSE s1
       IN /\ best_accuracy' = IF acc THEN current_accuracy ELSE best_accuracy
          /\ best_norm_ed' = IF ned THEN current_norm_ed ELSE best_norm_ed
          /\ fs' = s2.fs
          /\ dirs' = s2.dirs
          /\ stored' = (IF acc THEN <<BestAccuracyFile>> ELSE <<>>)
                       \o (IF ned THEN <<BestNormEdFile>> ELSE <<>>)
    /\ pc' = "best_log"
    /\ UNCHANGED <<self, call, ret, error, model, current_step, i,
                   total_num_steps, loss_avg, current_accuracy,
                   current_norm_ed, log, reads>>

\* lines 199-201: the best-of-both line; the log file is closed
BestLog ==
    /\ pc = "best_log"
    /\ log' = Append(log, LogLine("best", i, <<best_accuracy, best_norm_ed>>))
    /\ pc' = "save_iter"
    /\ stored' = <<>>
    /\ UNCHANGED <<self, fs, dirs, call, ret, error, model, current_step, i,
                   total_num_steps, loss_avg, best_accuracy, best_norm_ed,
                   current_accuracy, current_norm_ed, reads>>

\* mutant of SnapshotDue: the interval taken on i instead of i + 1
SnapshotDue_OnI(step) == step % SnapshotInterval = 0

\* `(i + 1) % 1e+5 == 0`
SnapshotDue(step) == (step + 1) % SnapshotInterval = 0

\* lines 203-205: save model per SnapshotInterval iterations
SaveIter ==
    /\ pc = "save_iter"
    /\ IF SnapshotDue(i)
       THEN LET s == store_model(model, IterFile(i + 1), fs, dirs) IN
            /\ fs' = s.fs
            /\ dirs' = s.dirs
            /\ stored' = <<IterFile(i + 1)>>
       ELSE /\ stored' = <<>>
            /\ UNCHANGED <<fs, dirs>>
    /\ pc' = "exit_check"
    /\ UNCHANGED <<self, call, ret, error, model, current_step, i,
                   total_num_steps, loss_avg, best_accuracy, best_norm_ed,
                   current_accuracy, current_norm_ed, log, reads>>

\* `i == self._max_train_steps`
ExitDue(step, max_steps) == step = max_steps

\* lines 207-212: sys.exit() when i is max_train_steps, else both counters
\* advance
ExitCheck ==
    /\ pc = "exit_check"
    /\ IF ExitDue(i, self.max_train_steps)
       THEN /\ pc' = "exited"
            /\ UNCHANGED <<i, current_step>>
       ELSE /\ pc' = "while"
            /\ i' = i + 1
            /\ current_step' = current_step + 1
    /\ stored' = <<>>
    /\ UNCHANGED <<self, fs, dirs, call, ret, error, model, total_num_steps,
                   loss_avg, best_accuracy, best_norm_ed, current_accuracy,
                   current_norm_ed, log, reads>>

\* get_cost's answer in iteration `step`: the costs of different iterations
\* are different numbers, so that a sum tells which iterations it is of
TrainCosts(step) == {step + 1}

Next ==
    \/ \E nms \in Optional(0..MaxTrainSteps + 1), ne \in Optional(0..MaxEpoch) :
          Train(nms, ne)
    \/ WhileExit
    \/ \E cost \in TrainCosts(i) : TrainPart(cost)
    \/ LossLog
    \/ NoValidation
    \/ EvalMode
    \/ \E batches \in BatchOutcomes(self.dataset.validation_set) :
          RunValidation(batches)
    \/ TrainMode
    \/ ValidLog
    \/ KeepBest
    \/ BestLog
    \/ SaveIter
    \/ ExitCheck

Spec == Init /\ [][Next]_vars

\* train is called and runs on: the one thread of control takes its next
\* step whenever it has one
SpecRunning == Spec /\ WF_vars(Next)

\* ------------------------------------------- validation called directly
InitValidation ==
    /\ self \in [max_train_steps : {0},
                 validation_interval_steps : {1},
                 stored_model : {EmptyPath},
                 dataset : {Dataset(v) : v \in ValidationSets}]
    /\ fs = <<>>
    /\ dirs = {}
    /\ InitLocals

\* validation(model) over the validation set, the collaborators answering
\* `batches`
CallValidation(batches) ==
    /\ pc = "idle"
    /\ call' = [op |-> "validation", batches |-> batches]
    /\ LET v == validation(batches) IN
       IF v.error # <<>>
       THEN /\ pc' = "raised"
            /\ error' = v.error
            /\ UNCHANGED ret
       ELSE /\ pc' = "returned"
            /\ ret' = v
            /\ UNCHANGED error
    /\ UNCHANGED <<self, fs, dirs, model, current_step, i, total_num_steps,
                   loss_avg, best_accuracy, best_norm_ed, current_accuracy,
                   current_norm_ed, log, stored, reads>>

NextValidation ==
    \E batches \in BatchOutcomes(self.dataset.validation_set) :
        CallValidation(batches)

SpecValidation == InitValidation /\ [][NextValidation]_vars

\* --------------------------------- store_model and load_model called directly
\* the models a caller stores: the bare model and its DataParallel wrapper,
\* fresh or after one optimizer step
StoreModels ==
    {[params |-> [base |-> "init", steps |-> n], wrapped |-> w, mode |-> "train"] :
        n \in 0..1, w \in BOOLEAN}
StoreFiles == {BestAccuracyFile, IterFile(1)}
StorePaths == {ModelDir(m) \o f : m \in StoreModels, f \in StoreFiles}
LoadPaths == {EmptyPath, PretrainedPath} \cup StorePaths

InitStore ==
    /\ self \in [max_train_steps : {0},
                 validation_interval_steps : {1},
                 stored_model : LoadPaths,
                 dataset : {Dataset(<<1>>)}]
    /\ fs \in {<<>>, PretrainedPath :> [kind |-> "state_dict", params |-> PretrainedParams]}
    /\ dirs = {}
    /\ InitLocals

\* store_model(model, file_name)
CallStoreModel(m, file_name) ==
    /\ pc = "idle"
    /\ call' = [op |-> "store_model", model |-> m, file_name |-> file_name,
                path |-> ModelDir(m) \o file_name]
    /\ LET s == store_model(m, file_name, fs, dirs) IN
       /\ fs' = s.fs
       /\ dirs' = s.dirs
       /\ error' = s.error
    /\ stored' = <<file_name>>
    /\ ret' = <<>>
    /\ UNCHANGED <<self, pc, model, current_step, i, total_num_steps,
                   loss_avg, best_accuracy, best_norm_ed, current_accuracy,
                   current_norm_ed, log, reads>>

\* load_model(path); an exception goes to the caller, who may call again
CallLoadModel(path) ==
    /\ pc = "idle"
    /\ call' = [op |-> "load_model", path |-> path]
    /\ LET l == load_model(path, self.stored_model, FreshParams, fs, dirs) IN
       /\ error' = l.error
       /\ ret' = IF l.error = <<>> THEN l.model ELSE <<>>
       /\ reads' = l.reads
    /\ stored' = <<>>
    /\ UNCHANGED <<self, fs, dirs, pc, model, current_step, i, total_num_steps,
                   loss_avg, best_accuracy, best_norm_ed, current_accuracy,
                   current_norm_ed, log>>

NextStore ==
    \/ \E m \in StoreModels, f \in StoreFiles : CallStoreModel(m, f)
    \/ \E path \in LoadPaths : CallLoadModel(path)

SpecStore == InitStore /\ [][NextStore]_vars

\* ------------------------------------------- weight initialization of __init__
\* most parameters of the model handed to the constructor
MaxParams == 2
\* the substrings of a parameter name the constructor tests for
SkipMarker == "localization_fc2"
NameParts == {SkipMarker, "bias", "weight"}
\* model.named_parameters(): each parameter with the tested substrings its
\* name contains, whether the torch.nn.init function applied to it raises
\* (kaiming_normal_ does on a tensor of fewer than two dimensions), and its
\* content, which is the framework's default before the constructor
NamedParameters ==
    UNION {[1..n -> [name : SUBSET NameParts, raises : BOOLEAN, data : {"default"}]] :
             n \in 0..MaxParams}

\* mutant of InitParameter: the except branch fills nothing
InitParameter_NoFill(param) ==
    IF SkipMarker \in param.name THEN param.data
    ELSE IF "bias" \in param.name /\ ~param.raises THEN "constant_0"
    ELSE IF "bias" \notin param.name /\ "weight" \in param.name /\ ~param.raises
         THEN "kaiming_normal"
    ELSE param.data

\* one pass of the loop body: the content of the parameter after it
InitParameter(param) ==
    IF SkipMarker \in param.name THEN param.data
    ELSE LET tried == IF "bias" \in param.name THEN "constant_0"
                      ELSE IF "weight" \in param.name THEN "kaiming_normal"
                      ELSE "none"
         IN IF tried # "none" /\ param.raises
            THEN IF "weight" \in param.name THEN "fill_1" ELSE param.data
            ELSE IF tried = "none" THEN param.data ELSE tried

\* the loop over named_parameters(), from parameter k on
RECURSIVE WeightInitLoop(_, _)
WeightInitLoop(params, k) ==
    IF k > Len(params) THEN params
    ELSE WeightInitLoop([params EXCEPT ![k].data = InitParameter(params[k])], k + 1)

InitConstruct ==
    /\ self = [max_train_steps |-> 0, validation_interval_steps |-> 1,
               stored_model |-> EmptyPath, dataset |-> Dataset(<<1>>)]
    /\ fs = <<>>
    /\ dirs = {}
    /\ call \in [op : {"__init__"}, named_parameters : NamedParameters]
    /\ pc = "__init__"
    /\ ret = <<>>
    /\ error = <<>>
    /\ model = DataParallel(FreshParams)
    /\ current_step = 0
    /\ i = 0
    /\ total_num_steps = -1
    /\ loss_avg = Averager
    /\ best_accuracy = <<-1, 1>>
    /\ best_norm_ed = BestNormEdInit
    /\ current_accuracy = <<0, 1>>
    /\ current_norm_ed = 0
    /\ log = <<>>
    /\ stored = <<>>
    /\ reads = <<>>

\* TorchExecutor(...): the weight initialization; ret is the model's
\* parameters when the constructor returns
Construct ==
    /\ pc = "__init__"
    /\ ret' = WeightInitLoop(call.named_parameters, 1)
    /\ error' = <<>>
    /\ pc' = "idle"
    /\ UNCHANGED <<self, fs, dirs, call, model, current_step, i, total_num_steps,
                   loss_avg, best_accuracy, best_norm_ed, current_accuracy,
                   current_norm_ed, log, stored, reads>>

NextConstruct == Construct

SpecConstruct == InitConstruct /\ [][NextConstruct]_vars

\* ------------------------- store_model while another process loads the file
\* torch.save(model, path) opens the file at path for writing, which leaves
\* it truncated, streams the pickled object into it and closes it; between
\* the two the file holds a part of the object.
\* mutant of TorchSaveOpen: the object is streamed to a temporary file that is
\* renamed to path on close, so path holds what it held
TorchSaveOpen_Temporary(m, path, files) == files

TorchSaveOpen(m, path, files) ==
    (path :> [kind |-> "partial", params |-> m.params]) @@ files
TorchSaveClose(m, path, files) ==
    (path :> [kind |-> "object", params |-> m.params]) @@ files

\* `model.load_state_dict(torch.load(self._stored_model, ...))` on the wrapped
\* model: torch.load raises on a missing file and on a part of a pickle,
\* load_state_dict on what is not a parameter dictionary
TorchLoad(stored_path, wrapped, files) ==
    IF stored_path \notin DOMAIN files
    THEN [error |-> <<"FileNotFoundError">>, model |-> wrapped, reads |-> <<>>]
    ELSE CASE files[stored_path].kind = "state_dict" ->
                [error |-> <<>>,
                 model |-> [wrapped EXCEPT !.params = files[stored_path].params],
                 reads |-> <<stored_path>>]
           [] files[stored_path].kind = "partial" ->
                [error |-> <<"UnpicklingError">>, model |-> wrapped,
                 reads |-> <<stored_path>>]
           [] OTHER ->
                [error |-> <<"TypeError">>, model |-> wrapped,
                 reads |-> <<stored_path>>]

\* the training process stores into one directory; the predicting process is
\* configured with one of the stored files or with the pretrained file
InitConcurrent ==
    /\ self \in [max_train_steps : {0},
                 validation_interval_steps : {1},
                 stored_model : {PretrainedPath} \cup
                    {ModelDir(DataParallel(FreshParams)) \o f : f \in StoreFiles},
                 dataset : {Dataset(<<1>>)}]
    /\ fs \in {<<>>, self.stored_model :> [kind |-> "state_dict", params |-> PretrainedParams]}
    /\ dirs = {}
    /\ pc = [writer |-> "idle", reader |-> "idle"]
    /\ call = [op |-> "none"]
    /\ ret = <<>>
    /\ error = <<>>
    /\ model = DataParallel(FreshParams)
    /\ current_step = 0
    /\ i = 0
    /\ total_num_steps = -1
    /\ loss_avg = Averager
    /\ best_accuracy = <<-1, 1>>
    /\ best_norm_ed = BestNormEdInit
    /\ current_accuracy = <<0, 1>>
    /\ current_norm_ed = 0
    /\ log = <<>>
    /\ stored = <<>>
    /\ reads = <<>>

\* writer, lines 67-68: store_model(m, file_name) makes the directory
StoreMakeDirs(m, file_name) ==
    /\ pc.writer = "idle"
    /\ call' = [op |-> "store_model", model |-> m, file_name |-> file_name,
                path |-> ModelDir(m) \o file_name]
    /\ dirs' = IF ~Exists(ModelDir(m), fs, dirs)
               THEN MakeDirs(ModelDir(m), dirs) ELSE dirs
    /\ pc' = [pc EXCEPT !.writer = "open"]
    /\ stored' = <<>>
    /\ UNCHANGED <<self, fs, ret, error, model, current_step, i, total_num_steps,
                   loss_avg, best_accuracy, best_norm_ed, current_accuracy,
                   current_norm_ed, log, reads>>

\* writer, line 70: torch.save opens the file
StoreOpen ==
    /\ pc.writer = "open"
    /\ fs' = TorchSaveOpen(call.model, call.path, fs)
    /\ pc' = [pc EXCEPT !.writer = "write"]
    /\ stored' = <<>>
    /\ UNCHANGED <<self, dirs, call, ret, error, model, current_step, i,
                   total_num_steps, loss_avg, best_accuracy, best_norm_ed,
                   current_accuracy, current_norm_ed, log, reads>>

\* writer, line 70: torch.save has written the object and closes the file
StoreClose ==
    /\ pc.writer = "write"
    /\ fs' = TorchSaveClose(call.model, call.path, fs)
    /\ pc' = [pc EXCEPT !.writer = "idle"]
    /\ stored' = <<call.file_name>>
    /\ UNCHANGED <<self, dirs, call, ret, error, model, current_step, i,
                   total_num_steps, loss_avg, best_accuracy, best_norm_ed,
                   current_accuracy, current_norm_ed, log, reads>>

\* reader, lines 215 and 102-105: predict_directory calls
\* load_model(self._stored_model), which wraps the model and tests the path
LoadExists ==
    /\ pc.reader = "idle"
    /\ IF Exists(self.stored_model, fs, dirs)
       THEN /\ pc' = [pc EXCEPT !.reader = "torch_load"]
            /\ ret' = <<>>
       ELSE /\ pc' = pc
            /\ ret' = DataParallel(FreshParams)
    /\ error' = <<>>
    /\ reads' = <<>>
    /\ stored' = <<>>
    /\ UNCHANGED <<self, fs, dirs, call, model, current_step, i, total_num_steps,
                   loss_avg, best_accuracy, best_norm_ed, current_accuracy,
                   current_norm_ed, log>>

\* reader, line 106: torch.load and load_state_dict; an exception ends
\* predict_directory, which may be called again
LoadTorchLoad ==
    /\ pc.reader = "torch_load"
    /\ LET l == TorchLoad(self.stored_model, DataParallel(FreshParams), fs) IN
       /\ error' = l.error
       /\ ret' = IF l.error = <<>> THEN l.model ELSE <<>>
       /\ reads' = l.reads
    /\ pc' = [pc EXCEPT !.reader = "idle"]
    /\ stored' = <<>>
    /\ UNCHANGED <<self, fs, dirs, call, model, current_step, i, total_num_steps,
                   loss_avg, best_accuracy, best_norm_ed, current_accuracy,
                   current_norm_ed, log>>

NextConcurrent ==
    \/ \E m \in {sm \in StoreModels : sm.wrapped}, f \in StoreFiles :
          StoreMakeDirs(m, f)
    \/ StoreOpen
    \/ StoreClose
    \/ LoadExists
    \/ LoadTorchLoad

SpecConcurrent == InitConcurrent /\ [][NextConcurrent]_vars

\* ------------------------------------------------------------ properties
\* two rationals are the same number
RatEq(a, b) == a[1] * b[2] = b[1] * a[2]

\* the file at `path` was written by the step
Written(path) ==
    /\ path \in DOMAIN fs'
    /\ path \in DOMAIN fs => fs'[path] # fs[path]

BestAccuracyPath == ModelDir(model) \o BestAccuracyFile
BestNormEdPath == ModelDir(model) \o BestNormEdFile

\* C1: inside train best_accuracy starts at -1 and never decreases,
\* best_norm_ed starts at 1e+6 and never increases, and the step that keeps
\* the best models writes best_accuracy.pth exactly when the round's accuracy
\* is strictly greater than the previous best, and best_norm_ed.pth exactly
\* when the round's edit distance is strictly less than the previous best.
C1_BestTracking ==
    [][ /\ pc' = "while" /\ pc = "idle" =>
            best_accuracy' = <<-1, 1>> /\ best_norm_ed' = BestNormEdInit
        /\ ~RatLess(best_accuracy', best_accuracy)
        /\ best_norm_ed' <= best_norm_ed
        /\ pc = "keep_best" =>
            /\ Written(BestAccuracyPath) <=> RatLess(best_accuracy, current_accuracy)
            /\ Written(BestNormEdPath) <=> current_norm_ed < best_norm_ed
            /\ best_accuracy' = IF RatLess(best_accuracy, current_accuracy)
                                THEN current_accuracy ELSE best_accuracy
            /\ best_norm_ed' = IF current_norm_ed < best_norm_ed
                               THEN current_norm_ed ELSE best_norm_ed
        /\ pc # "keep_best" =>
            ~Written(BestAccuracyPath) /\ ~Written(BestNormEdPath)
      ]_vars

\* a round after the first tied the best accuracy and the best edit distance
\* and wrote nothing
C1_Witness ==
    /\ pc = "best_log"
    /\ i > 0
    /\ RatEq(current_accuracy, best_accuracy)
    /\ current_norm_ed = best_norm_ed
    /\ stored = <<>>
    /\ fs[BestAccuracyPath].params.steps < model.params.steps

\* optimizer steps train has performed
OptimizerSteps == model.params.steps
\* complete validation log blocks: a block ends with its best-of-both line
LogBlocks == Cardinality({k \in 1..Len(log) : log[k].kind = "best"})
CeilDiv(n, d) == (n + d - 1) \div d
IterPaths == {ModelDir(model) \o IterFile(n) : n \in 1..MaxTrainSteps + 2}

\* C2: a train(num_max_steps=N) that returns, on an executor constructed with
\* max_train_steps = N >= 1 and validation_interval_steps = V >= 1, has
\* performed exactly N optimizer steps (at no time more, and it never exits
\* the process) and appended exactly ceil(N/V) validation log blocks; a round
\* stores best_accuracy.pth and best_norm_ed.pth at most once each, and train
\* writes no checkpoint file besides these two and the numbered snapshots.
C2_ExactBudget ==
    (/\ call.op = "train"
     /\ call.num_max_steps = Some(self.max_train_steps)
     /\ self.max_train_steps >= 1)
    => /\ OptimizerSteps <= self.max_train_steps
       /\ pc # "exited"
       /\ pc = "returned" =>
            /\ OptimizerSteps = self.max_train_steps
            /\ LogBlocks = CeilDiv(self.max_train_steps, self.validation_interval_steps)
            /\ Len(log) = 3 * LogBlocks
       /\ pc = "best_log" =>
            /\ \A k \in 1..Len(stored) : stored[k] \in {BestAccuracyFile, BestNormEdFile}
            /\ \A j, k \in 1..Len(stored) : stored[j] = stored[k] => j = k
       /\ DOMAIN fs \subseteq {PretrainedPath, BestAccuracyPath, BestNormEdPath} \cup IterPaths

\* train(num_max_steps=3) with max_train_steps = 3 and interval 2 returned
\* after 3 steps and 2 log blocks
C2_Witness ==
    /\ pc = "returned"
    /\ call.num_max_steps = Some(3)
    /\ self.max_train_steps = 3
    /\ self.validation_interval_steps = 2
    /\ OptimizerSteps = 3
    /\ LogBlocks = 2

\* C3: when the total step budget is larger than max_train_steps, train ends
\* the process when i reaches max_train_steps, and exactly max_train_steps
\* optimizer steps have been performed then, never more.
C3_ExitAtMaxTrainSteps ==
    (call.op = "train" /\ total_num_steps > self.max_train_steps)
    => /\ OptimizerSteps <= self.max_train_steps
       /\ pc = "exited" =>
            i = self.max_train_steps /\ OptimizerSteps = self.max_train_steps

\* iterations whose save-model step is over
IterationsSaved == IF pc \in {"exit_check", "exited"} THEN i + 1 ELSE i

\* C4: iteration i of train has written the snapshot iter_<i+1>.pth, holding
\* the parameters after i + 1 steps, exactly when i + 1 is a multiple of the
\* snapshot interval: one snapshot per SnapshotInterval iterations, whatever
\* the validation results and the best files written.
C4_SnapshotEveryInterval ==
    \A n \in 1..MaxTrainSteps + 2 :
        LET path == ModelDir(model) \o IterFile(n) IN
        /\ path \in DOMAIN fs <=> (n <= IterationsSaved /\ n % SnapshotInterval = 0)
        /\ path \in DOMAIN fs => fs[path] = [kind |-> "object",
                                             params |-> [base |-> model.params.base, steps |-> n]]
        /\ pc = "exit_check" =>
             (stored = <<IterFile(i + 1)>> <=> (i + 1) % SnapshotInterval = 0)

\* two snapshots, iter_2.pth in an iteration without a validation round and
\* iter_4.pth in the iteration that exits; no best file was written with them
C4_Witness ==
    /\ pc = "exited"
    /\ self.validation_interval_steps = 2
    /\ ModelDir(model) \o IterFile(2) \in DOMAIN fs
    /\ ModelDir(model) \o IterFile(4) \in DOMAIN fs
    /\ fs[BestAccuracyPath].params.steps = 1

\* the budget the arguments of the call stand for
ClaimedBudget ==
    IF IsNotNone(call.num_max_steps) THEN call.num_max_steps[1]
    ELSE (self.dataset.num_samples \div self.dataset.batch_size) * call.num_epoch[1]

\* the iterations total_num_steps allows (-1 allows none)
EffectiveBudget == IF total_num_steps < 0 THEN 0 ELSE total_num_steps

\* C5: the step budget of train is num_max_steps whenever num_max_steps is
\* given, and (len(dataset) // batch_size) * num_epoch when only num_epoch is
\* given; the loop never iterates more often than that budget.
C5_BudgetPrecedence ==
    (/\ call.op = "train"
     /\ pc # "raised"
     /\ IsNotNone(call.num_max_steps) \/ IsNotNone(call.num_epoch))
    => /\ EffectiveBudget = ClaimedBudget
       /\ OptimizerSteps <= ClaimedBudget

\* C6: train never rejects its budget arguments, and a train given neither
\* num_max_steps nor num_epoch keeps total_num_steps at -1, performs no
\* optimizer step, no validation round, no log write and no checkpoint write,
\* and returns.
C6_NoBudgetNoWork ==
    /\ error # <<"AssertionError">>
    /\ (call.op = "train" /\ call.num_max_steps = None /\ call.num_epoch = None)
       => /\ pc \in {"while", "returned"}
          /\ error = <<>>
          /\ total_num_steps = -1
          /\ OptimizerSteps = 0
          /\ log = <<>>
          /\ dirs = {}
          /\ DOMAIN fs \subseteq {PretrainedPath}
          /\ stored = <<>>

\* train() with neither argument has returned
C6_Witness ==
    /\ pc = "returned"
    /\ call.op = "train"
    /\ call.num_max_steps = None
    /\ call.num_epoch = None

\* sum of f[1..n]
SumTo(f, n) ==
    LET S[k \in 0..n] == IF k = 0 THEN 0 ELSE S[k - 1] + f[k] IN S[n]
TotalSamples(batches) ==
    SumTo([k \in 1..Len(batches) |-> batches[k].batch_size], Len(batches))
TotalCorrect(batches) ==
    SumTo([k \in 1..Len(batches) |-> batches[k].n_correct_], Len(batches))
TotalNormED(batches) ==
    SumTo([k \in 1..Len(batches) |-> batches[k].norm_ED_], Len(batches))

\* C7: on a non-empty validation set validation returns the accuracy
\* C / T * 100, T the sum of the batch sizes and C the sum of the per-batch
\* exact-match counts, the sum of the per-batch edit distances, the sample
\* count T, and the predictions of the last batch.
C7_ValidationResult ==
    (call.op = "validation" /\ call.batches # <<>>)
    => /\ pc = "returned"
       /\ error = <<>>
       /\ ret.accuracy[2] > 0
       /\ RatEq(ret.accuracy, <<TotalCorrect(call.batches) * 100, TotalSamples(call.batches)>>)
       /\ ret.norm_ED = TotalNormED(call.batches)
       /\ ret.length_of_data = TotalSamples(call.batches)
       /\ ret.preds_str = call.batches[Len(call.batches)].preds_str

\* two batches of sizes 1 and 2 with 1 and 1 correct: accuracy 2/3*100, the
\* edit distances 1 and 1 summed to 2, the predictions of batch 2
C7_Witness ==
    /\ pc = "returned"
    /\ call.op = "validation"
    /\ Len(call.batches) = 2
    /\ call.batches[1].batch_size = 1 /\ call.batches[2].batch_size = 2
    /\ call.batches[1].n_correct_ = 1 /\ call.batches[2].n_correct_ = 1
    /\ ret.accuracy = <<200, 3>>
    /\ ret.norm_ED = 2
    /\ ret.preds_str = 2

\* C8: on an empty validation set validation returns nothing and raises a
\* dedicated "empty validation set" error.
C8_EmptyValidationSetError ==
    (call.op = "validation" /\ call.batches = <<>>)
    => pc = "raised" /\ error = <<"EmptyValidationSetError">>

\* C9: load_model on the path store_model has just written succeeds and
\* returns a model with the parameters of the model that was stored.  Stated
\* for the executor whose stored_model is that path, the one case in which
\* load_model reads the file it tested.
C9_StoreLoadRoundTrip ==
    [][ (/\ call.op = "store_model"
         /\ call'.op = "load_model"
         /\ call'.path = call.path
         /\ self.stored_model = call.path)
        => /\ error' = <<>>
           /\ ret'.params = call.model.params ]_vars

\* C10: load_model on a path that does not exist, the empty default included,
\* raises nothing, reads no file and returns the freshly initialized model in
\* its DataParallel wrapper; a train whose stored_model does not exist starts
\* from these parameters.
C10_MissingCheckpoint ==
    /\ \A path \in LoadPaths :
          ~Exists(path, fs, dirs) =>
              load_model(path, self.stored_model, FreshParams, fs, dirs)
                  = [error |-> <<>>, model |-> DataParallel(FreshParams), reads |-> <<>>]
    /\ (call.op = "train" /\ self.stored_model \notin DOMAIN fs)
       => /\ error \in {<<>>, <<"ZeroDivisionError">>}
          /\ reads = <<>>
          /\ model.wrapped
          /\ model.params.base = "init"
          /\ (pc = "while" /\ current_step = 0) => model = DataParallel(FreshParams)

\* train has taken its first optimizer step from the fresh parameters, its
\* stored_model naming a file that does not exist
C10_Witness ==
    /\ pc = "validation_part"
    /\ self.stored_model = PretrainedPath
    /\ PretrainedPath \notin DOMAIN fs
    /\ model.params = [base |-> "init", steps |-> 1]
    /\ reads = <<>>

\* the checkpoint directories of the models a caller stores
StoreDirs == {ModelDir(m) : m \in StoreModels}
\* the checkpoint files under directory d
FilesIn(d, files) == {p \in DOMAIN files : Len(p) > Len(d) /\ SubSeq(p, 1, Len(d)) = d}

\* C11: over any sequence of store_model calls, in any order of file names
\* and model classes, a checkpoint directory that exists is never removed or
\* created again, it is created only by a store_model call for its model
\* class and only when no checkpoint was stored under it before, it exists
\* whenever a checkpoint file is under it, and every store_model call
\* returns without an error with its directory and its file in place.
C11_DirectoryCreatedOnce ==
    [][ /\ \A d \in StoreDirs :
            /\ d \in dirs => d \in dirs'
            /\ (d \notin dirs /\ d \in dirs') =>
                  /\ call'.op = "store_model"
                  /\ ModelDir(call'.model) = d
                  /\ FilesIn(d, fs) = {}
            /\ FilesIn(d, fs') # {} => d \in dirs'
        /\ stored' # <<>> =>
              /\ error' = <<>>
              /\ ModelDir(call'.model) \in dirs'
              /\ call'.path \in DOMAIN fs'
      ]_vars

\* a second store_model call found its directory and stored another
\* file under it
C11_Witness ==
    /\ call.op = "store_model"
    /\ error = <<>>
    /\ Cardinality(FilesIn(ModelDir(call.model), fs)) >= 2
    /\ ModelDir(call.model) \in dirs

\* C12: when the constructor returns, every parameter of the model was
\* treated by its name: one whose name contains the skip marker has its
\* content untouched; otherwise one with 'bias' in its name holds constant 0,
\* else one with 'weight' in its name holds the Kaiming-normal values; when
\* the initialization raised, it holds constant 1 if its name contains
\* 'weight' and its default content if not; a name with none of the
\* substrings keeps its default. The constructor raises nothing and every
\* parameter after a failing one is initialized by the same rule.
C12_WeightInitByName ==
    (call.op = "__init__" /\ pc = "idle") =>
        /\ error = <<>>
        /\ Len(ret) = Len(call.named_parameters)
        /\ \A k \in 1..Len(ret) :
            LET p == call.named_parameters[k]
                attempted == "bias" \in p.name \/ "weight" \in p.name
            IN /\ ret[k].name = p.name
               /\ ret[k].data =
                    CASE SkipMarker \in p.name -> p.data
                      [] ~attempted -> p.data
                      [] p.raises /\ "weight" \in p.name -> "fill_1"
                      [] p.raises -> p.data
                      [] "bias" \in p.name -> "constant_0"
                      [] OTHER -> "kaiming_normal"

\* the first parameter is a weight whose Kaiming-normal initialization raised
\* and was filled with 1, the second is a bias and was set to 0
C12_Witness ==
    /\ call.op = "__init__"
    /\ pc = "idle"
    /\ Len(ret) = 2
    /\ call.named_parameters[1].name = {"weight"}
    /\ call.named_parameters[1].raises
    /\ ret[1].data = "fill_1"
    /\ call.named_parameters[2].name = {"bias"}
    /\ ret[2].data = "constant_0"

\* C13 as stated: after the optimizer step of an iteration a validation
\* round starts exactly when the number of optimizer steps completed so far
\* is a multiple of validation_interval_steps.
C13_ValidationOnCompletedSteps ==
    [][ pc = "validation_part" =>
          (pc' = "eval" <=> OptimizerSteps % self.validation_interval_steps = 0)
      ]_vars

\* C13 amended: after the optimizer step of an iteration the loop counter i
\* is the number of optimizer steps completed minus one, and a validation
\* round starts exactly when i is a multiple of validation_interval_steps:
\* after the first step and then once every validation_interval_steps steps.
C13_ValidationOnLoopCounter ==
    [][ pc = "validation_part" =>
          /\ OptimizerSteps = i + 1
          /\ pc' = "eval" <=> i % self.validation_interval_steps = 0
          /\ pc' # "eval" => pc' = "save_iter" /\ log' = log
      ]_vars

\* with interval 2 a round started after the third optimizer step
C13_Witness ==
    /\ pc = "eval"
    /\ self.validation_interval_steps = 2
    /\ OptimizerSteps = 3

\* the validation rounds whose bests were kept, as the log shows them: the
\* validation-metrics lines, without the last one while its round has not
\* reached the keep-best step
RoundsKept ==
    LET valid == SelectSeq(log, LAMBDA l : l.kind = "valid") IN
    IF pc = "keep_best" THEN SubSeq(valid, 1, Len(valid) - 1) ELSE valid
\* the earliest round of rs with the highest accuracy, the lowest edit distance
HighestAccuracyRound(rs) ==
    CHOOSE k \in 1..Len(rs) :
        /\ \A j \in 1..Len(rs) : ~RatLess(rs[k].values[1], rs[j].values[1])
        /\ \A j \in 1..(k - 1) : RatLess(rs[j].values[1], rs[k].values[1])
LowestNormEdRound(rs) ==
    CHOOSE k \in 1..Len(rs) :
        /\ \A j \in 1..Len(rs) : rs[k].values[2] <= rs[j].values[2]
        /\ \A j \in 1..(k - 1) : rs[j].values[2] > rs[k].values[2]
\* the parameters at the validation round of a log line: those train started
\* from after line.i + 1 optimizer steps
ParamsAtRound(line) == [base |-> model.params.base, steps |-> line.i + 1]

\* C14: at every point of train, before the first validation round has kept
\* its bests there is no best file; afterwards best_accuracy.pth holds the
\* parameters of the earliest round with the highest accuracy among the
\* rounds so far and best_norm_ed.pth those of the earliest round with the
\* lowest edit distance, whatever optimizer steps and rounds came later.
C14_BestCheckpointContents ==
    LET rs == RoundsKept IN
    /\ rs = <<>> =>
          BestAccuracyPath \notin DOMAIN fs /\ BestNormEdPath \notin DOMAIN fs
    /\ rs # <<>> =>
          /\ BestAccuracyPath \in DOMAIN fs
          /\ fs[BestAccuracyPath].params = ParamsAtRound(rs[HighestAccuracyRound(rs)])
          /\ BestNormEdPath \in DOMAIN fs
          /\ fs[BestNormEdPath].params = ParamsAtRound(rs[LowestNormEdRound(rs)])

\* after three rounds the second tied the first in accuracy and the third
\* was worse, the edit distance was lowest in the second: best_accuracy.pth
\* is still that of the first round, best_norm_ed.pth that of the second
C14_Witness ==
    /\ pc = "returned"
    /\ Len(RoundsKept) = 3
    /\ HighestAccuracyRound(RoundsKept) = 1
    /\ RatEq(RoundsKept[2].values[1], RoundsKept[1].values[1])
    /\ RatLess(RoundsKept[3].values[1], RoundsKept[1].values[1])
    /\ LowestNormEdRound(RoundsKept) = 2
    /\ fs[BestAccuracyPath].params.steps = 1
    /\ fs[BestNormEdPath].params.steps = 2
    /\ OptimizerSteps = 3

\* C15: in train the model is in training mode before and after every
\* optimizer step and in evaluation mode before and after the validation
\* call; a round switches to evaluation mode right before the call and to
\* training mode right after it returns, and from there to the next
\* optimizer step the model stays in training mode.
C15_ModeAroundValidation ==
    [][ /\ (pc = "while" /\ pc' = "validation_part") =>
              model.mode = "train" /\ model'.mode = "train"
        /\ pc = "eval" => pc' = "validation" /\ model'.mode = "eval"
        /\ pc = "validation" =>
              /\ model.mode = "eval" /\ model'.mode = "eval"
              /\ pc' \in {"train_mode", "raised"}
        /\ pc = "train_mode" => pc' = "valid_log" /\ model'.mode = "train"
        /\ pc' \in {"while", "validation_part", "valid_log", "keep_best",
                    "best_log", "save_iter", "exit_check"} =>
              model'.mode = "train"
      ]_vars

\* the second optimizer step is over, after a complete validation round, and
\* the model is in training mode
C15_Witness ==
    /\ pc = "validation_part"
    /\ OptimizerSteps = 2
    /\ LogBlocks = 1
    /\ model.mode = "train"

\* the kind of the k-th line of a log made of three-line blocks
BlockKind(k) == CASE k % 3 = 1 -> "loss" [] k % 3 = 2 -> "valid" [] OTHER -> "best"
\* lines the log holds when train is at pc in iteration i: three for each
\* round of the iterations before, and those of this iteration's round
LogLinesAt ==
    LET V == self.validation_interval_steps
        before == 3 * CeilDiv(i, V)
    IN CASE pc \in {"idle", "while", "validation_part", "returned"} -> before
         [] pc \in {"eval", "validation", "train_mode", "valid_log"} -> before + 1
         [] pc = "raised" -> IF error = <<"ZeroDivisionError">> THEN before + 1 ELSE before
         [] pc \in {"keep_best", "best_log"} -> before + 2
         [] OTHER -> 3 * CeilDiv(i + 1, V)

\* C16: at every point of train the log is a sequence of three-line blocks,
\* one for each validation round so far (the round in progress has the
\* lines of the steps it has passed; a round whose validation raised has its
\* loss line only), block b being that of iteration b * interval; and every
\* step leaves the log as it is or appends one line: the loss line is
\* appended before the model is switched for the Evaluator, with the log
\* directory in place, the metrics line after the Evaluator returned with
\* this round's values, the best line after the bests include this round and
\* the best files are stored.
C16_LogBlocks ==
    /\ [](/\ Len(log) = LogLinesAt
          /\ \A k \in 1..Len(log) :
                /\ log[k].kind = BlockKind(k)
                /\ log[k].i = ((k - 1) \div 3) * self.validation_interval_steps
          /\ log # <<>> => ExperimentDir \in dirs)
    /\ [][ /\ log' # log => log' = Append(log, log'[Len(log')])
           /\ Len(log') > Len(log) =>
               LET line == log'[Len(log')] IN
               /\ line.i = i
               /\ ExperimentDir \in dirs'
               /\ line.kind = "loss" =>
                     pc = "validation_part" /\ pc' = "eval" /\ model'.mode = "train"
               /\ line.kind = "valid" =>
                     /\ pc = "valid_log"
                     /\ line.values = <<current_accuracy, current_norm_ed>>
               /\ line.kind = "best" =>
                     /\ pc = "best_log"
                     /\ line.values = <<best_accuracy, best_norm_ed>>
                     /\ ~RatLess(best_accuracy, current_accuracy)
                     /\ best_norm_ed <= current_norm_ed
                     /\ {BestAccuracyPath, BestNormEdPath} \subseteq DOMAIN fs
         ]_vars

\* train with interval 2 returned after three steps: two blocks, of
\* iterations 0 and 2
C16_Witness ==
    /\ pc = "returned"
    /\ self.validation_interval_steps = 2
    /\ Len(log) = 6
    /\ log[4].kind = "loss"
    /\ log[4].i = 2
    /\ log[6].kind = "best"

\* the iterations since the previous validation round, at the round of
\* iteration `step`
IterationsSinceRound(step, interval) ==
    IF step = 0 THEN {0} ELSE (step - interval + 1)..step
\* the accumulator that holds the costs of the iterations in S
RECURSIVE AveragerOf(_)
AveragerOf(S) ==
    IF S = {} THEN Averager
    ELSE LET j == CHOOSE x \in S : \A y \in S : x >= y
         IN AveragerAdd(AveragerOf(S \ {j}), CHOOSE c \in TrainCosts(j) : TRUE)

\* C17: in the step of a validation round that reads loss_avg, writes the
\* loss line and resets, loss_avg holds at least one cost, namely exactly the
\* costs of the iterations since the previous round (that of iteration 0 at
\* the first round, validation_interval_steps costs afterwards), the line
\* shows their sum over their count, and loss_avg is empty after the step;
\* it stays empty and untouched through the validation call, whose
\* accumulator is its own, and changes in no step but the train part's add
\* and the round's reset.
C17_LossAccumulator ==
    [][ /\ (pc = "validation_part" /\ pc' = "eval") =>
              /\ loss_avg.n_count >= 1
              /\ loss_avg.n_count =
                    IF i = 0 THEN 1 ELSE self.validation_interval_steps
              /\ loss_avg =
                    AveragerOf(IterationsSinceRound(i, self.validation_interval_steps))
              /\ log'[Len(log')].values = <<AveragerVal(loss_avg)>>
              /\ loss_avg' = Averager
        /\ pc \in {"eval", "validation"} =>
              loss_avg = Averager /\ loss_avg' = loss_avg
        /\ loss_avg' # loss_avg =>
              \/ pc = "while" /\ loss_avg'.n_count = loss_avg.n_count + 1
              \/ pc = "validation_part" /\ loss_avg' = Averager
      ]_vars

\* the round of iteration 2 with interval 2 has logged the mean of the costs
\* of iterations 1 and 2 and reset loss_avg
C17_Witness ==
    /\ pc = "eval"
    /\ i = 2
    /\ self.validation_interval_steps = 2
    /\ log[Len(log)] = LogLine("loss", 2, <<<<2 + 3, 2>>>>)
    /\ loss_avg = Averager

\* iterations of the loop train has entered
IterationsEntered ==
    IF pc \in {"idle", "while", "returned"} \/ (pc = "raised" /\ call.op # "train")
       \/ (pc = "raised" /\ log = <<>>)
    THEN i ELSE i + 1

\* C18: a train that runs on ends: it returns, which it does only with
\* current_step at or past total_num_steps, or it exits the process, which
\* it does only with i = max_train_steps, or a collaborator's exception ends
\* it; and at no time has it entered more than total_num_steps iterations
\* (none for a negative budget).
C18_TrainTerminates ==
    /\ <>(pc \in {"returned", "exited"} \/ (pc = "raised" /\ error # <<>>))
    /\ [](/\ pc = "returned" => current_step >= total_num_steps
          /\ pc = "exited" => i = self.max_train_steps
          /\ current_step = i
          /\ IterationsEntered <= (IF total_num_steps < 0 THEN 0 ELSE total_num_steps))

\* the process exit ended train in its third iteration with a budget of four
C18_Witness ==
    /\ pc = "exited"
    /\ i = 2
    /\ total_num_steps = 4
    /\ IterationsEntered = 3

\* C19: store_model and a concurrent load_model of predict_directory are not
\* coordinated: while the writer is between opening and closing the file the
\* file holds a part of the object, the reader's load of it is not held
\* back, and a reader that loads the file then reads that part (torch.load
\* raises on it); a part of an object is in a file at no other time.
C19_ReaderSeesPartialFile ==
    /\ [](/\ pc.writer = "write" =>
                /\ call.path \in DOMAIN fs
                /\ fs[call.path].kind = "partial"
                /\ pc.reader = "torch_load" => ENABLED LoadTorchLoad
          /\ \A p \in DOMAIN fs :
                fs[p].kind = "partial" => pc.writer = "write" /\ call.path = p)
    /\ [][ (/\ pc.writer = "write"
            /\ pc.reader = "torch_load"
            /\ pc'.reader = "idle"
            /\ self.stored_model = call.path)
           => /\ reads' = <<call.path>>
              /\ error' = <<"UnpicklingError">>
         ]_vars

\* the reader has loaded the file the writer is still writing and got the
\* error of a partial file
C19_Witness ==
    /\ pc.writer = "write"
    /\ pc.reader = "idle"
    /\ self.stored_model = call.path
    /\ reads = <<call.path>>
    /\ error = <<"UnpicklingError">>
    /\ fs[call.path].kind = "partial"

====
